---- MODULE Spec2Model ----
(***************************************************************************)
(* Model of gstools.krige.base.Krige: the kriging engine that owns a       *)
(* conditioning set, a list of drift functions, a cached kriging matrix    *)
(* and the result of the last evaluation, and that shares a covariance     *)
(* model with its caller.  The model is one-dimensional (model.dim = 1).   *)
(*                                                                         *)
(* numpy arrays of rank one (positions, values, fields) are sequences; the *)
(* external drift, whose rank the code inspects, is a record               *)
(* [shape, data] with the data in row-major order.                         *)
(***************************************************************************)
EXTENDS Integers, Sequences, FiniteSets

VARIABLES model, cond_pos, cond_val, krige_ext_drift, drift_functions,
          krige_pos, krige_mat, mesh_type, pos, field, krige_var, last

engine == <<cond_pos, cond_val, krige_ext_drift, drift_functions,
            krige_pos, krige_mat>>
result == <<mesh_type, pos, field, krige_var>>
vars == <<model, cond_pos, cond_val, krige_ext_drift, drift_functions,
          krige_pos, krige_mat, mesh_type, pos, field, krige_var, last>>

----------------------------------------------------------------------------
(* Bounds of the model *)

\* largest number of conditioning points
MaxCond == 2
\* largest number of query points of one evaluation
MaxPts == 3

\* Python's None; every optional value of the model is a record
None == [none |-> TRUE]

\* parameters of the shared covariance model (its length scale)
ModelParams == {1, 2}
\* conditioning values
CondValues == {0, 1}
\* numbers of external drift channels a caller passes
Channels == {1, 2}
MeshTypes == {"unstructured"}
\* callables and a non-callable a caller may pass as drift functions
Callables == {"f", "g"}
NonCallables == {"nc"}

----------------------------------------------------------------------------
(* numpy helpers *)

RECURSIVE Prod(_)
Prod(s) == IF s = <<>> THEN 1 ELSE Head(s) * Prod(Tail(s))

\* an array of the given shape; entry k (row-major) holds k
Arr(shape) == [shape |-> shape, data |-> [k \in 1..Prod(shape) |-> k]]

\* np.array([]): rank one, no entries
EmptyArr == [shape |-> <<0>>, data |-> <<>>]

\* np.array(a, ndmin=2): ones are prepended to the shape up to rank two
AtLeast2d(a) ==
    IF Len(a.shape) >= 2 THEN a
    ELSE [shape |-> <<1>> \o a.shape, data |-> a.data]

\* a.reshape(shape); the caller has checked that the sizes agree
Reshape(a, shape) == [shape |-> shape, data |-> a.data]

\* column j (1-based) of a rank-two array
Column(a, j) == [r \in 1..a.shape[1] |-> a.data[(r - 1) * a.shape[2] + j]]

\* np.pad(v, (0, n), constant_values=0)
PadZeros(v, n) == v \o [k \in 1..n |-> 0]

\* a row of n equally spaced points
Points(n) == [i \in 1..n |-> i]

----------------------------------------------------------------------------
(* Properties of the engine *)

cond_no == Len(cond_val)

drift_no == Len(drift_functions) + krige_ext_drift.shape[1]

unbiased == TRUE

UnbiasedInt == IF unbiased THEN 1 ELSE 0

krige_cond == PadZeros(cond_val, drift_no + UnbiasedInt)

\* the left-hand side a kriging variant builds from the engine's state at
\* the moment of the call: square, of size cond_no + drift_no + unbiased,
\* holding covariances of the model's parameters at that moment
GetKrigeMat(cval, fns, ext, mdl) ==
    [size |-> Len(cval) + Len(fns) + ext.shape[1] + UnbiasedInt,
     cov |-> mdl]

----------------------------------------------------------------------------
(* Arguments a caller may pass *)

CondPosArgs == {Points(n) : n \in 1..MaxCond}

CondValArgs == {[i \in 1..n |-> v] : n \in 1..MaxCond, v \in CondValues}

\* external drift at n points: absent, rank one, rank two with the right or
\* a wrong number of values per channel, rank three
ExtArgs(n) ==
    {None, Arr(<<n>>), Arr(<<1, 1, n>>)}
    \cup {Arr(<<r, c>>) : r \in Channels, c \in {n, n + 1}}

DriftLists == {<<>>, <<"f", "g">>, <<"g", "f">>, <<"nc">>, <<"f", "nc">>}

DriftArgs ==
    {[kind |-> "none", val |-> <<>>]}
    \cup {[kind |-> "str", val |-> s] : s \in {"linear"}}
    \cup {[kind |-> "list", val |-> s] : s \in DriftLists}
    \cup {[kind |-> "iterator", val |-> s] : s \in DriftLists}
    \cup {[kind |-> "single", val |-> s] : s \in Callables \cup NonCallables}

----------------------------------------------------------------------------
(* Outcome of an operation: a value, or the exception it raised *)

Ok(v) == [ok |-> TRUE, val |-> v, err |-> "ok"]

Raise(e) == [ok |-> FALSE, val |-> None, err |-> e]

\* what the last operation on the engine was and how it ended; an evaluation
\* records more (see EvalDone)
Done(op, err) ==
    [op |-> op, outcome |-> err, chunk_size |-> 0, slices |-> <<>>,
     writes |-> <<>>, ext |-> None, ret |-> None]

----------------------------------------------------------------------------
(* gstools.krige.tools *)

\* set_condition: the positions and the flattened values, or ValueError
\* when their counts differ
ToolsSetCondition(cpos, cval) ==
    IF Len(cpos) # Len(cval) THEN Raise("ValueError")
    ELSE Ok([pos |-> cpos, val |-> cval])

\* get_drift_functions in one dimension: the polynomial basis of the preset
GetDriftFunctions(name) ==
    IF name = "linear" THEN <<"x">> ELSE <<"x", "xx">>

----------------------------------------------------------------------------
(* Krige.pre_ext_drift *)

PreExtDrift(point_no, ext_drift, set_cond) ==
    IF ext_drift # None
    THEN LET a == AtLeast2d(ext_drift)
             shape == <<drift_no, point_no>>
         IN  IF set_cond
             THEN IF Len(a.shape) > 2 \/ a.shape[2] # point_no
                  THEN Raise("ValueError")
                  ELSE Ok(a)
             ELSE IF a.shape[1] # drift_no
                  THEN Raise("ValueError")
                  ELSE IF Prod(a.shape) # Prod(shape)
                       THEN Raise("ValueError")
                       ELSE Ok(Reshape(a, shape))
    ELSE Ok(EmptyArr)

----------------------------------------------------------------------------
(* Krige.update_model, Krige.set_condition, Krige.set_drift_functions *)

\* faulty variant: the matrix is not rebuilt
UpdateModelKeepMat(cpos, cval, ext) ==
    /\ krige_pos' = cpos
    /\ UNCHANGED krige_mat

\* the assignments of update_model, given the conditioning set in force
UpdateModelWith(cpos, cval, ext) ==
    /\ krige_pos' = cpos
    /\ krige_mat' = GetKrigeMat(cval, drift_functions, ext, model)

update_model ==
    /\ UpdateModelWith(cond_pos, cond_val, krige_ext_drift)
    /\ last' = Done("update_model", "ok")
    /\ UNCHANGED <<model, cond_pos, cond_val, krige_ext_drift,
                   drift_functions, result>>

set_condition(cpos, cval, ext_drift) ==
    LET c == ToolsSetCondition(cpos, cval)
        e == PreExtDrift(Len(cval), ext_drift, TRUE)
    IN  \/ /\ ~c.ok
           /\ last' = Done("set_condition", c.err)
           /\ UNCHANGED <<model, engine, result>>
        \/ /\ c.ok /\ ~e.ok
           /\ cond_pos' = c.val.pos
           /\ cond_val' = c.val.val
           /\ last' = Done("set_condition", e.err)
           /\ UNCHANGED <<model, krige_ext_drift, drift_functions,
                          krige_pos, krige_mat, result>>
        \/ /\ c.ok /\ e.ok
           /\ cond_pos' = c.val.pos
           /\ cond_val' = c.val.val
           /\ krige_ext_drift' = e.val
           /\ UpdateModelWith(c.val.pos, c.val.val, e.val)
           /\ last' = Done("set_condition", "ok")
           /\ UNCHANGED <<model, drift_functions, result>>

\* the list set_drift_functions checks and stores, or ValueError
CheckedDriftFunctions(arg) ==
    LET listed == IF arg.kind = "single" THEN <<arg.val>> ELSE arg.val
    IN  IF \E k \in 1..Len(listed) : listed[k] \notin Callables
        THEN Raise("ValueError")
        ELSE Ok(listed)

DriftFunctionsOf(arg) ==
    IF arg.kind = "none" THEN Ok(<<>>)
    ELSE IF arg.kind = "str" THEN Ok(GetDriftFunctions(arg.val))
    ELSE CheckedDriftFunctions(arg)

\* faulty variant: the list is stored before its entries are checked
set_drift_functions_unchecked(arg) ==
    LET d == DriftFunctionsOf(arg)
        listed == IF arg.kind = "single" THEN <<arg.val>> ELSE arg.val
    IN  \/ /\ d.ok
           /\ drift_functions' = d.val
           /\ last' = Done("set_drift_functions", "ok")
           /\ UNCHANGED <<model, cond_pos, cond_val, krige_ext_drift,
                          krige_pos, krige_mat, result>>
        \/ /\ ~d.ok
           /\ drift_functions' = listed
           /\ last' = Done("set_drift_functions", d.err)
           /\ UNCHANGED <<model, cond_pos, cond_val, krige_ext_drift,
                          krige_pos, krige_mat, result>>

set_drift_functions(arg) ==
    LET d == DriftFunctionsOf(arg)
    IN  \/ /\ d.ok
           /\ drift_functions' = d.val
           /\ last' = Done("set_drift_functions", "ok")
           /\ UNCHANGED <<model, cond_pos, cond_val, krige_ext_drift,
                          krige_pos, krige_mat, result>>
        \/ /\ ~d.ok
           /\ last' = Done("set_drift_functions", d.err)
           /\ UNCHANGED <<model, engine, result>>

\* the caller changes a correlation-affecting parameter of the shared model
MutateModel ==
    /\ \E m \in ModelParams \ {model} : model' = m
    /\ last' = Done("mutate_model", "ok")
    /\ UNCHANGED <<engine, result>>

----------------------------------------------------------------------------
(* Krige.__init__: set_drift_functions, then set_condition; an engine      *)
(* exists only when neither raised.                                        *)

Init ==
    /\ model \in ModelParams
    /\ \E arg \in DriftArgs, cpos \in CondPosArgs, cval \in CondValArgs :
         \E ext_drift \in ExtArgs(Len(cval)) :
           LET d == DriftFunctionsOf(arg)
               c == ToolsSetCondition(cpos, cval)
               a == IF ext_drift = None THEN EmptyArr
                    ELSE AtLeast2d(ext_drift)
           IN  /\ d.ok /\ c.ok
               /\ ext_drift # None =>
                    Len(a.shape) = 2 /\ a.shape[2] = Len(cval)
               /\ drift_functions = d.val
               /\ cond_pos = c.val.pos
               /\ cond_val = c.val.val
               /\ krige_ext_drift = a
               /\ krige_pos = c.val.pos
               /\ krige_mat = GetKrigeMat(c.val.val, d.val, a, model)
    /\ mesh_type = "unstructured"
    /\ pos = None
    /\ field = None
    /\ krige_var = None
    /\ last = Done("__init__", "ok")

SetCondition ==
    \E cpos \in CondPosArgs, cval \in CondValArgs :
      \E ext_drift \in ExtArgs(Len(cval)) : set_condition(cpos, cval, ext_drift)

SetDriftFunctions == \E arg \in DriftArgs : set_drift_functions(arg)

NextCond == SetCondition \/ SetDriftFunctions \/ update_model \/ MutateModel

SpecCond == Init /\ [][NextCond]_vars

----------------------------------------------------------------------------
(* Krige.__call__ *)

Min(a, b) == IF a < b THEN a ELSE b

Max(a, b) == IF a > b THEN a ELSE b

\* int(np.ceil(a / b)) for b # 0
CeilDiv(a, b) == IF b > 0 THEN -((-a) \div b) ELSE -(a \div (-b))

\* a bound of a Python slice over n items: negative bounds count from the
\* end, and both are clipped to 0..n
SliceBound(k, n) == IF k < 0 THEN Max(k + n, 0) ELSE Min(k, n)

\* the 1-based indices slice(*sl) selects among n items
SliceIdx(sl, n) ==
    {j \in 1..n : SliceBound(sl[1], n) < j /\ j <= SliceBound(sl[2], n)}

\* chunk_size = point_no if chunk_size is None else int(chunk_size)
ChunkSize(point_no, chunk_size) ==
    IF chunk_size = None THEN point_no ELSE chunk_size.int

\* faulty variant: the number of chunks rounded down
ChunkNoFloor(point_no, cs) ==
    IF cs > 0 THEN point_no \div cs ELSE CeilDiv(point_no, cs)

ChunkNo(point_no, cs) == CeilDiv(point_no, cs)

\* faulty variant: the end of the slice not limited to the number of points
ChunkSliceNoClip(i, cs, point_no) == <<i * cs, (i + 1) * cs>>

ChunkSlice(i, cs, point_no) == <<i * cs, Min(point_no, (i + 1) * cs)>>

\* an entry of np.empty_like(x) that nothing has written yet
Unwritten == <<"unwritten">>

\* what such an entry may hold when it is read
Garbage == {<<"junk", 0>>, <<"junk", 1>>}

\* the right-hand sides of the query points of one chunk: one column per
\* point, from its position and its external drift values
KrigeVec(x, j, ext) ==
    [x |-> x[j],
     drift |-> IF Len(ext.shape) = 2 THEN Column(ext, j) ELSE <<>>]

GetKrigeVecs(x, chunk_slice, ext) ==
    [j \in SliceIdx(chunk_slice, Len(x)) |-> KrigeVec(x, j, ext)]

\* krigesum: estimate and error variance of each column, each from the
\* matrix, that column and the conditions alone
KrigeSum(mat, k_vec, cond) ==
    [field |-> [j \in DOMAIN k_vec |-> <<"est", mat, k_vec[j], cond>>],
     var |-> [j \in DOMAIN k_vec |-> <<"var", mat, k_vec[j]>>]]

\* field[c_slice], krige_var[c_slice] = krigesum(...)
AssignChunk(acc, chunk_slice, sum) ==
    LET idx == SliceIdx(chunk_slice, Len(acc.field))
    IN  [field |-> [j \in 1..Len(acc.field) |->
                      IF j \in idx THEN sum.field[j] ELSE acc.field[j]],
         var |-> [j \in 1..Len(acc.var) |->
                      IF j \in idx THEN sum.var[j] ELSE acc.var[j]],
         slices |-> Append(acc.slices, chunk_slice),
         writes |-> [j \in 1..Len(acc.writes) |->
                      IF j \in idx THEN acc.writes[j] + 1 ELSE acc.writes[j]]]

\* the element of a singleton (binds a value that is computed once)
Only(S) == CHOOSE w \in S : TRUE

\* faulty variant: each iteration solves against a matrix rebuilt from the
\* model as it is now, not against the cached one
ChunkStepRebuild(i, cs, x, ext, acc) ==
    LET chunk_slice == ChunkSlice(i, cs, Len(x))
        k_vec == GetKrigeVecs(x, chunk_slice, ext)
        mat == GetKrigeMat(cond_val, drift_functions, krige_ext_drift, model)
    IN  Only({AssignChunk(acc, chunk_slice, sum) :
                 sum \in {KrigeSum(mat, k_vec, krige_cond)}})

\* one iteration of the loop over the chunks
ChunkStep(i, cs, x, ext, acc) ==
    LET chunk_slice == ChunkSlice(i, cs, Len(x))
        k_vec == GetKrigeVecs(x, chunk_slice, ext)
    IN  Only({AssignChunk(acc, chunk_slice, sum) :
                 sum \in {KrigeSum(krige_mat, k_vec, krige_cond)}})

\* for i in range(chunk_no), from iteration i on
RECURSIVE ChunkLoop(_, _, _, _, _, _)
ChunkLoop(i, chunk_no, cs, x, ext, acc) ==
    IF i >= chunk_no THEN acc
    ELSE Only({ChunkLoop(i + 1, chunk_no, cs, x, ext, nxt) :
                 nxt \in {ChunkStep(i, cs, x, ext, acc)}})

\* the arrays before the first iteration
EmptyLike(x) ==
    [field |-> [j \in 1..Len(x) |-> Unwritten],
     var |-> [j \in 1..Len(x) |-> Unwritten],
     slices |-> <<>>,
     writes |-> [j \in 1..Len(x) |-> 0]]

\* what the memory of an array that np.empty_like handed out may hold: any
\* value of Garbage when some entry was never written (the model fills one
\* array with one value)
JunkOf(a) ==
    IF \E j \in 1..Len(a) : a[j] = Unwritten THEN Garbage ELSE {Unwritten}

\* reading an array: an entry no chunk wrote holds whatever was in memory
ReadArray(a, junk) ==
    [shape |-> <<Len(a)>>,
     data |-> [j \in 1..Len(a) |-> IF a[j] = Unwritten THEN junk ELSE a[j]]]

\* reshape_field_from_unstruct_to_struct in one dimension
ReshapeToStruct(a, ax_lens) == Reshape(a, ax_lens)

\* the record of an evaluation
EvalDone(err, cs, acc, ext, ret) ==
    [op |-> "__call__", outcome |-> err, chunk_size |-> cs,
     slices |-> acc.slices, writes |-> acc.writes, ext |-> ext, ret |-> ret]

\* faulty variant: the error variance is not stored
post_field_no_var(f, v) ==
    /\ field' = f
    /\ UNCHANGED krige_var

post_field(f, v) ==
    /\ field' = f
    /\ krige_var' = v

call(x, mt, ext_drift, chunk_size) ==
    \E point_no \in {Len(x)}, mt_changed \in {mt = "structured"} :
    \E cs \in {ChunkSize(point_no, chunk_size)},
       e \in {PreExtDrift(point_no, ext_drift, FALSE)} :
        /\ mesh_type' = mt
        /\ pos' = [shape |-> <<point_no>>, data |-> x]
        /\ UNCHANGED <<model, engine>>
        /\ \/ /\ cs = 0
              /\ last' = Done("__call__", "ZeroDivisionError")
              /\ UNCHANGED <<field, krige_var>>
           \/ /\ cs # 0 /\ ~e.ok
              /\ last' = Done("__call__", e.err)
              /\ UNCHANGED <<field, krige_var>>
           \/ /\ cs # 0 /\ e.ok
              /\ \E acc \in {ChunkLoop(0, ChunkNo(point_no, cs), cs, x, e.val,
                                       EmptyLike(x))} :
                  \E jf \in JunkOf(acc.field), jv \in JunkOf(acc.var) :
                  \E f \in {ReadArray(acc.field, jf)},
                     v \in {ReadArray(acc.var, jv)} :
                  \E fs \in {IF mt_changed
                             THEN ReshapeToStruct(f, <<point_no>>) ELSE f},
                     vs \in {IF mt_changed
                             THEN ReshapeToStruct(v, <<point_no>>) ELSE v} :
                           /\ post_field(fs, vs)
                           /\ last' = EvalDone("ok", cs, acc, e.val,
                                               [field |-> field',
                                                krige_var |-> krige_var'])

QueryArgs == {Points(n) : n \in 0..MaxPts}

ChunkArgs(n) == {None} \cup {[int |-> k] : k \in -1..(n + 1)}

Call ==
    \E x \in QueryArgs, mt \in MeshTypes :
      \E ext_drift \in ExtArgs(Len(x)), chunk_size \in ChunkArgs(Len(x)) :
        call(x, mt, ext_drift, chunk_size)

Next == SetCondition \/ SetDriftFunctions \/ update_model \/ MutateModel \/ Call

Spec == Init /\ [][Next]_vars

----------------------------------------------------------------------------
(* Evaluations on a freshly constructed engine whose model the caller may  *)
(* change and resynchronise.                                               *)

InitEval ==
    /\ Init
    /\ cond_val = [i \in 1..MaxCond |-> 1]
    /\ drift_functions \in {<<>>, <<"x">>}
    /\ krige_ext_drift.shape[1] <= 1

NextEval == Call \/ update_model \/ MutateModel

SpecEval == InitEval /\ [][NextEval]_vars

----------------------------------------------------------------------------
(* gstools.tools.export: the helpers of the VTK export. They are functions *)
(* of their arguments; last holds the pending call, then its outcome.      *)

\* the largest length of a mesh axis and of a dimension of a field
MaxAxis == 2

\* the 0-based row-major offset of the entry at column-major offset k
RECURSIVE FtoC(_, _)
FtoC(shape, k) ==
    IF shape = <<>> THEN 0
    ELSE (k % Head(shape)) * Prod(Tail(shape))
         + FtoC(Tail(shape), k \div Head(shape))

\* a.reshape(-1, order="F")
FlattenF(a) ==
    [shape |-> <<Prod(a.shape)>>,
     data |-> [k \in 1..Prod(a.shape) |-> a.data[FtoC(a.shape, k - 1) + 1]]]

\* a.reshape(-1)
FlattenC(a) == [shape |-> <<Prod(a.shape)>>, data |-> a.data]

Flatten(a, order) == IF order = "F" THEN FlattenF(a) ELSE FlattenC(a)

\* np.zeros_like(x)
ZerosLike(x) == [shape |-> x.shape, data |-> [k \in 1..Len(x.data) |-> 0]]

\* np.array([0])
ZeroAxis == [shape |-> <<1>>, data |-> <<0>>]

\* x, y, z = pos2xyz(pos): the axes of the position tuple, None for an axis
\* the tuple does not have
Pos2xyz(p) ==
    [x |-> p[1],
     y |-> IF Len(p) >= 2 THEN p[2] ELSE None,
     z |-> IF Len(p) >= 3 THEN p[3] ELSE None]

\* a dict is the sequence of its items in insertion order
IsDict(fields) == fields.kind = "dict"

\* if not isinstance(fields, dict): fields = {"field": fields}
AsDict(fields) ==
    IF IsDict(fields) THEN fields.items
    ELSE <<[name |-> "field", arr |-> fields.arr]>>

\* for field in fields, from item k on: the item is replaced by its
\* flattening, and the loop ends with ValueError at the first item whose
\* length differs from one of lens
RECURSIVE FieldLoop(_, _, _, _)
FieldLoop(items, k, lens, order) ==
    IF k > Len(items) THEN [outcome |-> "ok", items |-> items]
    ELSE LET flat == Flatten(items[k].arr, order)
             nxt == [items EXCEPT ![k].arr = flat]
         IN  IF \E i \in 1..Len(lens) : Len(flat.data) # lens[i]
             THEN [outcome |-> "ValueError", items |-> nxt]
             ELSE FieldLoop(nxt, k + 1, lens, order)

\* the record of a call of a helper: its arguments, how it ended, the fields
\* dict as the loop left it, and what it returned
VtkDone(op, p, fields, r, ret) ==
    [op |-> op, outcome |-> r.outcome, pos |-> p, fields |-> fields,
     fields_after |-> r.items,
     ret |-> IF r.outcome = "ok" THEN ret ELSE None]

\* faulty variant: the lengths of the axes are added
StructuredPointCountSum(x, y, z) == Len(x.data) + Len(y.data) + Len(z.data)

\* len(x) * len(y) * len(z)
StructuredPointCount(x, y, z) == Len(x.data) * Len(y.data) * Len(z.data)

vtk_structured_helper(p, fields) ==
    LET a == Pos2xyz(p)
        x == a.x
        y == IF a.y = None THEN ZeroAxis ELSE a.y
        z == IF a.z = None THEN ZeroAxis ELSE a.z
        r == FieldLoop(AsDict(fields), 1, <<StructuredPointCount(x, y, z)>>,
                       "F")
    IN  VtkDone("_vtk_structured_helper", p, fields, r,
                [x |-> x, y |-> y, z |-> z, fields |-> r.items])

vtk_unstructured_helper(p, fields) ==
    LET a == Pos2xyz(p)
        x == a.x
        y == IF a.y = None THEN ZerosLike(x) ELSE a.y
        z == IF a.z = None THEN ZerosLike(x) ELSE a.z
        r == FieldLoop(AsDict(fields), 1,
                       <<Len(x.data), Len(y.data), Len(z.data)>>, "C")
    IN  VtkDone("_vtk_unstructured_helper", p, fields, r,
                [x |-> x, y |-> y, z |-> z, fields |-> r.items])

\* position tuples of one to three axes, each of 0..MaxAxis points
VtkAxisArgs == {Arr(<<n>>) : n \in 0..MaxAxis}

VtkPosArgs == UNION {[1..d -> VtkAxisArgs] : d \in 1..3}

\* shapes of rank 0 to 3
FieldShapes == UNION {[1..r -> 0..MaxAxis] : r \in 0..3}

\* a single array, or a dict of no, one or two named arrays
VtkFieldArgs ==
    {[kind |-> "array", arr |-> Arr(s)] : s \in FieldShapes}
    \cup {[kind |-> "dict", items |-> <<>>]}
    \cup {[kind |-> "dict", items |-> <<[name |-> "a", arr |-> Arr(s)]>>] :
            s \in FieldShapes}
    \cup UNION {{[kind |-> "dict",
                  items |-> <<[name |-> "a", arr |-> Arr(s)],
                              [name |-> "b", arr |-> Arr(t)]>>] :
                   t \in {s, <<1>>, <<MaxAxis>>}} : s \in FieldShapes}

\* a call that has its arguments and has not run yet
VtkPending(p, fields) ==
    [op |-> "vtk_pending", outcome |-> "pending", pos |-> p,
     fields |-> fields, fields_after |-> AsDict(fields), ret |-> None]

VtkStructured ==
    /\ last.op = "vtk_pending"
    /\ last' = vtk_structured_helper(last.pos, last.fields)
    /\ UNCHANGED <<model, engine, result>>

VtkUnstructured ==
    /\ last.op = "vtk_pending"
    /\ last' = vtk_unstructured_helper(last.pos, last.fields)
    /\ UNCHANGED <<model, engine, result>>

\* an engine as constructed (the helpers do not touch it), and a mesh and
\* fields to export
InitVtk ==
    /\ model \in ModelParams
    /\ drift_functions = <<>>
    /\ cond_pos = Points(MaxCond)
    /\ cond_val = [i \in 1..MaxCond |-> 1]
    /\ krige_ext_drift = EmptyArr
    /\ krige_pos = cond_pos
    /\ krige_mat = GetKrigeMat(cond_val, drift_functions, krige_ext_drift,
                               model)
    /\ mesh_type = "unstructured"
    /\ pos = None
    /\ field = None
    /\ krige_var = None
    /\ \E p \in VtkPosArgs, fields \in VtkFieldArgs :
         last = VtkPending(p, fields)

NextVtk == VtkStructured \/ VtkUnstructured

SpecVtk == InitVtk /\ [][NextVtk]_vars

----------------------------------------------------------------------------
(* Properties *)

\* the last operation was an evaluation that returned
EvalOk == last.op = "__call__" /\ last.outcome = "ok"

\* the result of the evaluation of x with chunk_size = len(x)
Unchunked(x, ext) ==
    ChunkLoop(0, ChunkNo(Len(x), Len(x)), Len(x), x, ext, EmptyLike(x))

\* C1: an evaluation of N >= 1 points with any chunk_size in 1..N stores the
\* field and krige_var that the evaluation with chunk_size = N stores, entry
\* by entry.
C1_ChunkingInvariance ==
    (EvalOk /\ Len(pos.data) >= 1 /\ last.chunk_size \in 1..Len(pos.data)) =>
        /\ field.data = Unchunked(pos.data, last.ext).field
        /\ krige_var.data = Unchunked(pos.data, last.ext).var

\* an evaluation of three or more points that took more than one chunk
C1_Witness ==
    EvalOk /\ Len(pos.data) >= 3 /\ Len(last.slices) >= 2
           /\ last.chunk_size \in 2..Len(pos.data)

\* C2: the cached krige_mat is the matrix get_krige_mat builds from the
\* current conditioning set and the current drift functions (with the
\* model parameters it was built from).
C2_MatrixCurrent ==
    krige_mat = GetKrigeMat(cond_val, drift_functions, krige_ext_drift,
                            krige_mat.cov)

\* C3: the length of krige_cond is the side length of the cached krige_mat.
C3_CondLenIsMatSize == Len(krige_cond) = krige_mat.size

\* C4: a set_condition call that fails with ValueError leaves cond_pos,
\* cond_val, krige_ext_drift, krige_pos and krige_mat as they were.
C4_FailedSetConditionKeepsState ==
    [][(last'.op = "set_condition" /\ last'.outcome = "ValueError") =>
         UNCHANGED <<cond_pos, cond_val, krige_ext_drift, krige_pos,
                     krige_mat>>]_vars

\* C5: if external drift is set, every channel holds cond_no values; and
\* cond_val is as long as cond_pos.
C5_ConditioningConsistent ==
    /\ Len(cond_val) = Len(cond_pos)
    /\ krige_ext_drift # EmptyArr => krige_ext_drift.shape[2] = cond_no

\* C6: an evaluation of an engine that has external drift channels at its
\* conditioning points evaluates a chunk only when it was given a drift
\* array of drift_no channels with one value per query point.
C6_QueryDriftValidated ==
    (EvalOk /\ krige_ext_drift.shape[1] > 0 /\ Len(last.slices) >= 1) =>
        last.ext.shape = <<drift_no, Len(pos.data)>>

\* C7: set_drift_functions raises ValueError exactly when an entry of the
\* sequence (or the single argument) is not callable, and then leaves the
\* drift functions and krige_mat unchanged; None sets the empty list; a
\* sequence of callables is stored as given, in its order.
C7_SetDriftFunctions ==
    [][\A arg \in DriftArgs :
         (last'.op = "set_drift_functions" /\ set_drift_functions(arg)) =>
         LET entries == IF arg.kind = "single" THEN <<arg.val>> ELSE arg.val
             bad == /\ arg.kind \in {"list", "iterator", "single"}
                    /\ \E k \in 1..Len(entries) : entries[k] \in NonCallables
         IN  /\ bad <=> last'.outcome = "ValueError"
             /\ bad => UNCHANGED <<drift_functions, krige_mat>>
             /\ arg.kind = "none" => drift_functions' = <<>>
             /\ (arg.kind \in {"list", "iterator"} /\ ~bad) =>
                    drift_functions' = arg.val]_vars

\* a failed set_drift_functions on an engine that has drift functions
C7_Witness ==
    /\ last.op = "set_drift_functions" /\ last.outcome = "ValueError"
    /\ Len(drift_functions) = 2

\* C8 as stated: an evaluation never runs krigesum with a krige_mat built
\* from parameters the model no longer has.
C8_NeverStaleMatrix ==
    (EvalOk /\ Len(last.slices) >= 1) => krige_mat.cov = model

\* C8 amended: update_model rebuilds the matrix from the model's current
\* parameters, and an evaluation runs krigesum with the cached krige_mat as
\* it is (it is current only if update_model or set_condition was called
\* since the model last changed).
C8_RebuildOnlyOnUpdate ==
    /\ last.op = "update_model" =>
         krige_mat = GetKrigeMat(cond_val, drift_functions, krige_ext_drift,
                                 model)
    /\ EvalOk =>
         \A j \in 1..Len(field.data) :
            last.writes[j] > 0 => field.data[j][2] = krige_mat

\* the model was changed after an evaluation and update_model has rebuilt
\* the matrix
C8_Witness ==
    /\ last.op = "update_model"
    /\ krige_mat.cov = model
    /\ field # None
    /\ Len(field.data) >= 1
    /\ field.data[1][1] = "est"
    /\ field.data[1][2].cov # model

\* the estimate and the error variance krigesum gives query point j
ExpectedEst(j) ==
    <<"est", krige_mat, KrigeVec(pos.data, j, last.ext), krige_cond>>

ExpectedVar(j) == <<"var", krige_mat, KrigeVec(pos.data, j, last.ext)>>

\* C9: krige_var is None until an evaluation returns; an evaluation that
\* returns stores the arrays it computed for its query points and returns
\* that stored pair; any other step, a failed evaluation included, leaves
\* field and krige_var unchanged.
C9_StoredIsReturned ==
    /\ krige_var = None
    /\ [][IF last'.op = "__call__" /\ last'.outcome = "ok"
          THEN /\ field' # None /\ krige_var' # None
               /\ last'.ret = [field |-> field', krige_var |-> krige_var']
               /\ field'.shape = pos'.shape
               /\ krige_var'.shape = pos'.shape
               /\ \A j \in 1..Len(pos'.data) :
                    last'.writes[j] > 0 =>
                      /\ field'.data[j] = ExpectedEst(j)'
                      /\ krige_var'.data[j] = ExpectedVar(j)'
          ELSE UNCHANGED <<field, krige_var>>]_vars

\* a failed evaluation after one that returned
C9_Witness ==
    /\ last.op = "__call__" /\ last.outcome = "ValueError"
    /\ field # None /\ krige_var # None
    /\ pos.shape # field.shape

\* C10: for N >= 1 points and chunk_size >= 1 the loop runs ceil(N /
\* chunk_size) times; slice i is (i*chunk_size, min(N, (i+1)*chunk_size));
\* the slices are non-empty, at most chunk_size long, contiguous from 0 to N,
\* and write every index exactly once; chunk_size >= N gives the one slice
\* (0, N).
C10_ChunkSlices ==
    (EvalOk /\ Len(pos.data) >= 1 /\ last.chunk_size >= 1) =>
        LET n == Len(pos.data)
            cs == last.chunk_size
            s == last.slices
            m == Len(s)
        IN  /\ m >= 1 /\ m * cs >= n /\ (m - 1) * cs < n
            /\ s[1][1] = 0 /\ s[m][2] = n
            /\ \A k \in 1..m :
                 /\ s[k][1] = (k - 1) * cs
                 /\ s[k][1] < s[k][2]
                 /\ s[k][2] - s[k][1] <= cs
            /\ \A k \in 1..(m - 1) : s[k][2] = s[k + 1][1]
            /\ \A j \in 1..n : last.writes[j] = 1
            /\ cs >= n => s = <<<<0, n>>>>

\* an evaluation whose last chunk is shorter than chunk_size
C10_Witness ==
    /\ EvalOk /\ Len(pos.data) = 3 /\ last.chunk_size = 2
    /\ last.slices = <<<<0, 2>>, <<2, 3>>>>

\* C11: an evaluation, whether it returns or fails, leaves the model, cond_pos,
\* cond_val, krige_ext_drift, drift_functions, krige_pos and the cached
\* krige_mat as they were before it (of the state it writes only mesh_type,
\* pos, field and krige_var), and every entry a chunk wrote was solved
\* against that one cached matrix and the same padded conditions.
C11_CallLeavesConditioning ==
    [][last'.op = "__call__" =>
         /\ UNCHANGED <<model, cond_pos, cond_val, krige_ext_drift,
                        drift_functions, krige_pos, krige_mat>>
         /\ last'.outcome = "ok" =>
              \A j \in 1..Len(pos'.data) :
                 last'.writes[j] > 0 =>
                   /\ field'.data[j][2] = krige_mat
                   /\ field'.data[j][4] = krige_cond
                   /\ krige_var'.data[j][2] = krige_mat]_vars

\* an evaluation in several chunks by an engine whose cached matrix is older
\* than the model's parameters
C11_Witness ==
    /\ EvalOk /\ Len(last.slices) >= 2
    /\ krige_mat.cov # model
    /\ \A j \in 1..Len(pos.data) : field.data[j][2] = krige_mat

\* C12: an evaluation that returns, whatever integer chunk_size it was given
\* (zero and negative values included) and whatever the number of query
\* points, returns arrays of which every index was assigned by exactly one
\* chunk iteration.
C12_EveryEntryWritten ==
    EvalOk => \A j \in 1..Len(pos.data) : last.writes[j] = 1

\* the number of elements of every field of the call, in the order of the
\* dict
FieldCounts ==
    [k \in 1..Len(AsDict(last.fields)) |->
        Prod(AsDict(last.fields)[k].arr.shape)]

\* the length of an axis of the call, or absent when the tuple lacks it
AxisLen(d, absent) ==
    IF Len(last.pos) >= d THEN Len(last.pos[d].data) ELSE absent

\* C13: _vtk_structured_helper raises ValueError exactly when some field has
\* not len(x)*len(y)*len(z) elements, an absent y or z counting as length 1;
\* _vtk_unstructured_helper raises ValueError whenever some field has not
\* len(x) elements (and, when y and z are absent or as long as x, only
\* then), an absent y or z being returned as zeros of the length of x; a
\* fields argument that is not a dict is handled as the one entry named
\* "field"; what is accepted is returned flattened.
C13_VtkFieldCount ==
    /\ last.op = "_vtk_structured_helper" =>
         LET n == AxisLen(1, 1) * AxisLen(2, 1) * AxisLen(3, 1)
         IN  /\ last.outcome = "ValueError" <=>
                  \E k \in 1..Len(FieldCounts) : FieldCounts[k] # n
             /\ last.outcome \in {"ok", "ValueError"}
             /\ last.outcome = "ok" =>
                  /\ Len(last.ret.y.data) = AxisLen(2, 1)
                  /\ Len(last.ret.z.data) = AxisLen(3, 1)
                  /\ \A k \in 1..Len(last.ret.fields) :
                       last.ret.fields[k].arr.shape = <<n>>
    /\ last.op = "_vtk_unstructured_helper" =>
         LET n == AxisLen(1, 0)
         IN  /\ (\E k \in 1..Len(FieldCounts) : FieldCounts[k] # n) =>
                  last.outcome = "ValueError"
             /\ (AxisLen(2, n) = n /\ AxisLen(3, n) = n
                 /\ last.outcome = "ValueError") =>
                  \E k \in 1..Len(FieldCounts) : FieldCounts[k] # n
             /\ last.outcome \in {"ok", "ValueError"}
             /\ last.outcome = "ok" =>
                  /\ Len(last.pos) < 2 => last.ret.y = ZerosLike(last.pos[1])
                  /\ Len(last.pos) < 3 => last.ret.z = ZerosLike(last.pos[1])
                  /\ \A k \in 1..Len(last.ret.fields) :
                       last.ret.fields[k].arr.shape = <<n>>
    /\ (last.op \in {"_vtk_structured_helper", "_vtk_unstructured_helper"}
        /\ ~IsDict(last.fields)) =>
         /\ Len(last.fields_after) = 1
         /\ last.fields_after[1].name = "field"
         /\ last.fields_after[1].arr.shape = <<Prod(last.fields.arr.shape)>>

\* a single array of rank two is accepted for a structured mesh of two axes
\* of more than one point each, the z axis being absent
C13_Witness ==
    /\ last.op = "_vtk_structured_helper" /\ last.outcome = "ok"
    /\ ~IsDict(last.fields)
    /\ Len(last.fields.arr.shape) = 2
    /\ Len(last.pos) = 2
    /\ Len(last.pos[1].data) = 2 /\ Len(last.pos[2].data) = 2
    /\ last.ret.z = ZeroAxis
    /\ last.ret.fields[1].arr.data = <<1, 3, 2, 4>>

====
